---- MODULE Spec2Model ----
(***************************************************************************)
(* A model of process_audio (src/audio_utils.py), the spectral transform   *)
(* of the FFT audio toolkit: read a WAV file, collapse it to mono, take    *)
(* the real FFT, scale the bass/mid/treble bands, zero the bins below a    *)
(* magnitude threshold, take the inverse real FFT, peak-normalise and      *)
(* convert to int16.                                                       *)
(*                                                                         *)
(* Arithmetic is exact.  For the buffer lengths of the model (0..4) every  *)
(* twiddle factor of the forward and of the inverse transform is a         *)
(* multiple of 30 degrees, so a bin is (re + i*(imR + imS*sqrt(3))) / 2    *)
(* with integers re, imR, imS, of which imR and imS are never both         *)
(* non-zero.  Values are kept as integer numerators over a positive        *)
(* denominator common to the whole buffer (stated at each definition);     *)
(* the code only compares magnitudes with each other, tests a peak         *)
(* against 0 and divides samples by the peak, and a positive common        *)
(* factor cancels in each of these.                                        *)
(***************************************************************************)
EXTENDS Integers, Sequences, FiniteSets, TLC

VARIABLES
    pc,                 \* position in process_audio
    filepath,           \* argument: "" or the path of a file
    wav,                \* what wavfile.read(filepath) finds at that path
    eq_settings,        \* argument: None or the three gains
    compression_ratio,  \* argument, in hundredths
    sample_rate,        \* local, line 68
    audio_data,         \* local, lines 68-71 (numerators over wav.channels)
    fft_data,           \* local, lines 73-89
    fft_freqs,          \* local, line 74 (numerators over len(audio_data))
    processed_audio,    \* local, line 91
    max_val,            \* local, line 93
    normalized_audio,   \* local, lines 95-97 (numerators over norm_den)
    norm_den,           \* denominator of normalized_audio
    result,             \* the returned pair
    calls,              \* the number of calls of process_audio begun
    remembered,         \* an earlier call: its arguments and what it returned
    \* AudioApp (src/app.py)
    original_audio_data,         \* "empty" or "audio"
    eq_audio_data,               \* "None" or "audio"
    controls_stack,              \* currentIndex(): 0 equalizer, 1 compression
    compression_slider,          \* value(), 0..100
    is_playing,
    is_paused,
    settings_changed_since_play,
    playback_pos_ms,
    playback_start_offset_ms,
    playback_timer,              \* isActive()
    mixer_music,                 \* pygame.mixer.music: stopped, playing, paused
    last_event,                  \* the handler that ran last
    last_start                   \* what process_audio returned in its start_playback

callvars == <<calls, remembered>>

procvars == <<pc, filepath, wav, eq_settings, compression_ratio, sample_rate,
              audio_data, fft_data, fft_freqs, processed_audio, max_val,
              normalized_audio, norm_den, result>>

appvars == <<original_audio_data, eq_audio_data, controls_stack,
             compression_slider, is_playing, is_paused,
             settings_changed_since_play, playback_pos_ms,
             playback_start_offset_ms, playback_timer, mixer_music,
             last_event, last_start>>

vars == <<procvars, callvars, appvars>>

----------------------------------------------------------------------------
(* Bounds and input sets *)

MaxAmp == 1

Samples == (-1)..MaxAmp

\* the second channel of a two-channel file
RightSamples == {0, 1}

\* buffer lengths with exact twiddle factors; 1 and 3 are the odd ones
Lengths == 0..4

StereoLengths == 0..2

\* sample rates of the WAV header (an unsigned field)
Rates == {0, 1000, 8000}

\* the gains are multiples of 1 / GainDen: 0, 1 and 1 + 1 / GainDen
GainDen == 2

GainValues == {0, GainDen, GainDen + 1}

BassGains == {0, GainDen}

MidGains == {GainDen, GainDen + 1}

TrebleGains == GainValues

\* compression ratios in hundredths; the slider gives 0..100
CompValues == {-50, 0, 50, 67, 100}

CompDen == 100

\* the number of calls of process_audio in a row
MaxCalls == 3

\* the length of a loaded song, in steps of the playback position
MaxPos == 2

\* positions of the compression slider
SliderValues == {0, 50, 100}

BassEdge == 250

TrebleEdge == 4000

Int16Max == 32767

SeqsOf(S, n) == [1..n -> S]

----------------------------------------------------------------------------
(* Small helpers *)

Abs(x) == IF x < 0 THEN -x ELSE x

\* Python int() and numpy astype(int): truncation toward zero
TruncDiv(a, b) == IF a >= 0 THEN a \div b ELSE -((-a) \div b)

RECURSIVE SumSeq(_)
SumSeq(s) == IF s = <<>> THEN 0 ELSE Head(s) + SumSeq(Tail(s))

RECURSIVE MaxSeq(_)
MaxSeq(s) == IF Len(s) = 1 THEN s[1]
             ELSE LET m == MaxSeq(Tail(s)) IN IF s[1] >= m THEN s[1] ELSE m

----------------------------------------------------------------------------
(* The loader, lines 68-71 *)

\* audio_data.mean(axis=1) of a two-channel file, else the samples as read:
\* numerators over the number of channels
MonoMean(frames) == [i \in 1..Len(frames) |-> SumSeq(frames[i])]

\* lines 69-71: a two-dimensional array is averaged over its channels
ToMono(w) == IF w.channels = 2 THEN MonoMean(w.frames)
             ELSE [i \in 1..Len(w.frames) |-> w.frames[i][1]]

----------------------------------------------------------------------------
(* np.fft.rfft and np.fft.irfft *)

\* twice the cosine, and the sine as (SinR2 + SinS * sqrt(3)) / 2, of an
\* angle of u * 30 degrees, u a multiple of 2 or of 3
Cos2(u) == CASE u = 0 -> 2 [] u = 2 -> 1 [] u = 3 -> 0 [] u = 4 -> -1
             [] u = 6 -> -2 [] u = 8 -> -1 [] u = 9 -> 0 [] u = 10 -> 1

SinR2(u) == CASE u = 3 -> 2 [] u = 9 -> -2 [] OTHER -> 0

SinS(u) == CASE u = 2 -> 1 [] u = 4 -> 1 [] u = 8 -> -1 [] u = 10 -> -1
             [] OTHER -> 0

\* the angle 2 * pi * j / n in units of 30 degrees
Angle(j, n) == (12 \div n) * (j % n)

\* bin k of the forward transform of x (length n >= 1), doubled:
\* sum of x[t] * exp(-2 pi i k t / n)
RfftBin(x, k) ==
    LET n == Len(x)
        term(t) == [re  |-> x[t + 1] * Cos2(Angle(k * t, n)),
                    imR |-> -(x[t + 1] * SinR2(Angle(k * t, n))),
                    imS |-> -(x[t + 1] * SinS(Angle(k * t, n)))]
    IN  [re  |-> SumSeq([t \in 1..n |-> term(t - 1).re]),
         imR |-> SumSeq([t \in 1..n |-> term(t - 1).imR]),
         imS |-> SumSeq([t \in 1..n |-> term(t - 1).imS])]

\* np.fft.rfft(x): len(x) \div 2 + 1 bins; numpy rejects an empty input
RfftRaises(x) == Len(x) = 0

\* a spectrum kept from the call before and reused when its length fits,
\* although the later stages changed it in place
Rfft_Cached(x) ==
    IF Len(fft_data) = (Len(x) \div 2) + 1 THEN fft_data
    ELSE [k \in 1..((Len(x) \div 2) + 1) |-> RfftBin(x, k - 1)]

Rfft(x) == [k \in 1..((Len(x) \div 2) + 1) |-> RfftBin(x, k - 1)]

\* np.fft.irfft(a) with no n given: the output has 2 * (len(a) - 1) points
IrfftLen(a) == 2 * (Len(a) - 1)

\* numpy rejects an output of 0 points
IrfftRaises(a) == IrfftLen(a) < 1

\* sample j of the inverse transform, times 2 * IrfftLen(a); the imaginary
\* parts of the first and of the last bin are not read
IrfftSample(a, j) ==
    LET n == IrfftLen(a)
        M == Len(a) - 1
        mid(k) == LET u == Angle(k * j, n)
                  IN  a[k + 1].re * Cos2(u) - a[k + 1].imR * SinR2(u)
                      - 3 * a[k + 1].imS * SinS(u)
    IN  a[1].re
        + SumSeq([k \in 1..(M - 1) |-> mid(k)])
        + (IF j % 2 = 0 THEN a[M + 1].re ELSE -a[M + 1].re)

Irfft(a) == [j \in 1..IrfftLen(a) |-> IrfftSample(a, j - 1)]

----------------------------------------------------------------------------
(* The frequency axis and the bands, lines 74-82 *)

\* a division that yields inf instead of raising
RfftfreqRaises_Inf(rate) == FALSE

\* 1.0 / sample_rate with a Python int sample_rate
RfftfreqRaises(rate) == rate = 0

\* np.fft.rfftfreq(n, 1.0 / rate): bin k is at k * rate / n; numerators
\* over n
Rfftfreq(n, rate) == [k \in 1..((n \div 2) + 1) |-> (k - 1) * rate]

\* fft_freqs < 250, with f a numerator over n
BassMask(f, n) == f < BassEdge * n

\* a mid band that opens after 250 Hz
MidMask_Open(f, n) == f > BassEdge * n /\ f < TrebleEdge * n

\* (fft_freqs >= 250) & (fft_freqs < 4000)
MidMask(f, n) == f >= BassEdge * n /\ f < TrebleEdge * n

\* fft_freqs >= 4000
TrebleMask(f, n) == f >= TrebleEdge * n

ScaleBin(b, g) == [re |-> b.re * g, imR |-> b.imR * g, imS |-> b.imS * g]

None == [present |-> FALSE, bass |-> 0, mid |-> 0, treble |-> 0]

\* eq_settings['bass'] of None is a TypeError
EqualizeRaises(eq) == ~eq.present

\* lines 80-82, one masked multiplication after the other; each multiplies
\* every bin by GainDen, so the result is in units of 1 / GainDen^3 of the
\* input's
Equalize(a, freqs, n, eq) ==
    LET s1 == [k \in 1..Len(a) |-> IF BassMask(freqs[k], n)
                                   THEN ScaleBin(a[k], eq.bass)
                                   ELSE ScaleBin(a[k], GainDen)]
        s2 == [k \in 1..Len(a) |-> IF MidMask(freqs[k], n)
                                   THEN ScaleBin(s1[k], eq.mid)
                                   ELSE ScaleBin(s1[k], GainDen)]
    IN  [k \in 1..Len(a) |-> IF TrebleMask(freqs[k], n)
                             THEN ScaleBin(s2[k], eq.treble)
                             ELSE ScaleBin(s2[k], GainDen)]

----------------------------------------------------------------------------
(* Compression, lines 84-89 *)

\* np.abs(fft_data), squared and times 4: the order of the magnitudes
Magnitude(b) == b.re * b.re + b.imR * b.imR + 3 * b.imS * b.imS

Magnitudes(a) == [k \in 1..Len(a) |-> Magnitude(a[k])]

RECURSIVE Insert(_, _)
Insert(v, s) == IF s = <<>> THEN <<v>>
                ELSE IF v <= Head(s) THEN <<v>> \o s
                ELSE <<Head(s)>> \o Insert(v, Tail(s))

\* np.sort: ascending
RECURSIVE Sort(_)
Sort(s) == IF s = <<>> THEN <<>> ELSE Insert(Head(s), Sort(Tail(s)))

\* int(len(magnitudes) * compression_ratio), the ratio in hundredths
ThresholdIndex(len, ratio) == TruncDiv(len * ratio, CompDen)

\* sorted_magnitudes[threshold_index] past the end is an IndexError
CompressRaises(a, ratio) == ratio > 0 /\ ThresholdIndex(Len(a), ratio) >= Len(a)

\* an index into the magnitudes sorted the other way round
ThresholdValue_Desc(a, ratio) ==
    Sort(Magnitudes(a))[Len(a) - ThresholdIndex(Len(a), ratio)]

\* sorted_magnitudes[threshold_index], a 0-based index
ThresholdValue(a, ratio) == Sort(Magnitudes(a))[ThresholdIndex(Len(a), ratio) + 1]

ZeroBin == [re |-> 0, imR |-> 0, imS |-> 0]

\* a threshold that also removes the bins at the threshold
Compress_Inclusive(a, ratio) ==
    IF ratio > 0
    THEN [k \in 1..Len(a) |-> IF Magnitude(a[k]) <= ThresholdValue(a, ratio)
                              THEN ZeroBin ELSE a[k]]
    ELSE a

\* a guard on the size of the ratio instead of on its sign
Compress_Abs(a, ratio) ==
    IF Abs(ratio) > 0
    THEN [k \in 1..Len(a) |->
             IF Magnitude(a[k]) < ThresholdValue(a, Abs(ratio))
             THEN ZeroBin ELSE a[k]]
    ELSE a

\* lines 84-89
Compress(a, ratio) ==
    IF ratio > 0
    THEN [k \in 1..Len(a) |-> IF Magnitude(a[k]) < ThresholdValue(a, ratio)
                              THEN ZeroBin ELSE a[k]]
    ELSE a

----------------------------------------------------------------------------
(* Normalisation and conversion, lines 93-99 *)

\* a peak taken without the absolute value
MaxVal_Signed(x) == MaxSeq(x)

\* np.max(np.abs(processed_audio))
MaxVal(x) == MaxSeq([j \in 1..Len(x) |-> Abs(x[j])])

\* a scaling to 2^15 instead of to the largest int16
Normalize_Pow2(x) == IF MaxVal(x) > 0 THEN [j \in 1..Len(x) |-> x[j] * 32768]
                     ELSE x

\* processed_audio / max_val * 32767, or processed_audio itself: the
\* numerators, over NormDen(x)
Normalize(x) == IF MaxVal(x) > 0 THEN [j \in 1..Len(x) |-> x[j] * Int16Max]
                ELSE x

NormDen(x) == IF MaxVal(x) > 0 THEN MaxVal(x) ELSE 1

\* a C conversion to a 16-bit integer keeps the low 16 bits
WrapInt16(v) == ((v + 32768) % 65536) - 32768

\* .astype(np.int16): truncate toward zero, then 16 bits
AsInt16(num, den) == WrapInt16(TruncDiv(num, den))

----------------------------------------------------------------------------
(* The inputs *)

\* wavfile.read of a path that holds no readable WAV file raises
Unreadable == [readable |-> FALSE, rate |-> 0, channels |-> 1, frames |-> <<>>]

\* a WAV file: its sample rate and its frames, each frame one sample per
\* channel
WavFiles ==
    {Unreadable}
    \cup {[readable |-> TRUE, rate |-> r, channels |-> 1, frames |-> f] :
             r \in Rates,
             f \in UNION {SeqsOf(SeqsOf(Samples, 1), n) : n \in Lengths}}
    \cup {[readable |-> TRUE, rate |-> r, channels |-> 2, frames |-> f] :
             r \in Rates,
             f \in UNION {SeqsOf({<<l, r>> : l \in Samples, r \in RightSamples}, n) :
                             n \in StereoLengths}}

EqSettings ==
    {None} \cup [present : {TRUE}, bass : BassGains, mid : MidGains,
                 treble : TrebleGains]

Pending == [kind |-> "pending", sample_rate |-> 0, final_audio |-> <<>>]

\* return None, None
NoneResult == [kind |-> "None", sample_rate |-> 0, final_audio |-> <<>>]

\* return sample_rate, final_audio
Returned(rate, audio) == [kind |-> "audio", sample_rate |-> rate,
                          final_audio |-> audio]

\* no call remembered
NoCall == [set |-> FALSE, filepath |-> "", eq_settings |-> None,
           compression_ratio |-> 0, result |-> Pending, between |-> FALSE]

\* process_audio as a function of its arguments and of the file, lines 59-105
ProcessAudio(fp, w, eq, ratio) ==
    IF fp = "" \/ ~w.readable THEN NoneResult
    ELSE LET audio == ToMono(w) IN
    IF RfftRaises(audio) \/ RfftfreqRaises(w.rate) THEN NoneResult
    ELSE LET freqs == Rfftfreq(Len(audio), w.rate) IN
    IF EqualizeRaises(eq) THEN NoneResult
    ELSE LET shaped == Equalize(Rfft(audio), freqs, Len(audio), eq) IN
    IF CompressRaises(shaped, ratio) THEN NoneResult
    ELSE LET kept == Compress(shaped, ratio) IN
    IF IrfftRaises(kept) THEN NoneResult
    ELSE LET processed == Irfft(kept) IN
    Returned(w.rate, [j \in 1..Len(processed) |->
                        AsInt16(Normalize(processed)[j], NormDen(processed))])

\* AudioApp.__init__, lines 97-111, with no file loaded
AppIdle ==
    /\ original_audio_data = "empty"
    /\ eq_audio_data = "None"
    /\ controls_stack = 0
    /\ compression_slider = 0
    /\ is_playing = FALSE
    /\ is_paused = FALSE
    /\ settings_changed_since_play = FALSE
    /\ playback_pos_ms = 0
    /\ playback_start_offset_ms = 0
    /\ playback_timer = FALSE
    /\ mixer_music = "stopped"
    /\ last_event = "none"
    /\ last_start = "not called"

----------------------------------------------------------------------------
(* process_audio, one action per stage *)

Init ==
    /\ pc = "read"
    /\ filepath \in {"", "in.wav"}
    /\ wav \in WavFiles
    /\ filepath = "" => wav = Unreadable
    /\ eq_settings \in EqSettings
    /\ compression_ratio \in CompValues
    /\ sample_rate = 0
    /\ audio_data = <<>>
    /\ fft_data = <<>>
    /\ fft_freqs = <<>>
    /\ processed_audio = <<>>
    /\ max_val = 0
    /\ normalized_audio = <<>>
    /\ norm_den = 1
    /\ result = Pending
    /\ calls = 1
    /\ remembered = NoCall
    /\ AppIdle

\* lines 65 and 103-105: return None, None
ReturnNone ==
    /\ pc' = "done"
    /\ result' = NoneResult

\* lines 64-71
ReadWav ==
    /\ pc = "read"
    /\ IF filepath = "" \/ ~wav.readable
       THEN /\ ReturnNone
            /\ UNCHANGED <<sample_rate, audio_data>>
       ELSE /\ sample_rate' = wav.rate
            /\ audio_data' = ToMono(wav)
            /\ pc' = "transform"
            /\ UNCHANGED result
    /\ UNCHANGED <<filepath, wav, eq_settings, compression_ratio, fft_data,
                   fft_freqs, processed_audio, max_val, normalized_audio,
                   norm_den>>
    /\ UNCHANGED <<callvars, appvars>>

\* lines 73-74
ForwardTransform ==
    /\ pc = "transform"
    /\ IF RfftRaises(audio_data)
       THEN /\ ReturnNone
            /\ UNCHANGED <<fft_data, fft_freqs>>
       ELSE IF RfftfreqRaises(sample_rate)
       THEN /\ ReturnNone
            /\ fft_data' = Rfft(audio_data)
            /\ UNCHANGED fft_freqs
       ELSE /\ fft_data' = Rfft(audio_data)
            /\ fft_freqs' = Rfftfreq(Len(audio_data), sample_rate)
            /\ pc' = "equalize"
            /\ UNCHANGED result
    /\ UNCHANGED <<filepath, wav, eq_settings, compression_ratio, sample_rate,
                   audio_data, processed_audio, max_val, normalized_audio,
                   norm_den>>
    /\ UNCHANGED <<callvars, appvars>>

\* lines 76-82
EqualizeStep ==
    /\ pc = "equalize"
    /\ IF EqualizeRaises(eq_settings)
       THEN /\ ReturnNone
            /\ UNCHANGED fft_data
       ELSE /\ fft_data' = Equalize(fft_data, fft_freqs, Len(audio_data),
                                    eq_settings)
            /\ pc' = "compress"
            /\ UNCHANGED result
    /\ UNCHANGED <<filepath, wav, eq_settings, compression_ratio, sample_rate,
                   audio_data, fft_freqs, processed_audio, max_val,
                   normalized_audio, norm_den>>
    /\ UNCHANGED <<callvars, appvars>>

\* lines 84-89
CompressStep ==
    /\ pc = "compress"
    /\ IF CompressRaises(fft_data, compression_ratio)
       THEN /\ ReturnNone
            /\ UNCHANGED fft_data
       ELSE /\ fft_data' = Compress(fft_data, compression_ratio)
            /\ pc' = "inverse"
            /\ UNCHANGED result
    /\ UNCHANGED <<filepath, wav, eq_settings, compression_ratio, sample_rate,
                   audio_data, fft_freqs, processed_audio, max_val,
                   normalized_audio, norm_den>>
    /\ UNCHANGED <<callvars, appvars>>

\* line 91
InverseTransform ==
    /\ pc = "inverse"
    /\ IF IrfftRaises(fft_data)
       THEN /\ ReturnNone
            /\ UNCHANGED processed_audio
       ELSE /\ processed_audio' = Irfft(fft_data)
            /\ pc' = "normalize"
            /\ UNCHANGED result
    /\ UNCHANGED <<filepath, wav, eq_settings, compression_ratio, sample_rate,
                   audio_data, fft_data, fft_freqs, max_val, normalized_audio,
                   norm_den>>
    /\ UNCHANGED <<callvars, appvars>>

\* lines 93-101
NormalizeStep ==
    /\ pc = "normalize"
    /\ max_val' = MaxVal(processed_audio)
    /\ normalized_audio' = Normalize(processed_audio)
    /\ norm_den' = NormDen(processed_audio)
    /\ result' = Returned(sample_rate,
                          [j \in 1..Len(processed_audio) |->
                              AsInt16(normalized_audio'[j], norm_den')])
    /\ pc' = "done"
    /\ UNCHANGED <<filepath, wav, eq_settings, compression_ratio, sample_rate,
                   audio_data, fft_data, fft_freqs, processed_audio>>
    /\ UNCHANGED <<callvars, appvars>>

Next ==
    \/ ReadWav
    \/ ForwardTransform
    \/ EqualizeStep
    \/ CompressStep
    \/ InverseTransform
    \/ NormalizeStep

Spec == Init /\ [][Next]_vars

----------------------------------------------------------------------------
(* process_audio called again and again on the same file *)

\* the files of the repeated calls: none, two or three samples at 8000 Hz,
\* or no WAV file
CallFiles ==
    {w \in WavFiles : ~w.readable
                         \/ (w.channels = 1 /\ Len(w.frames) \in {0, 2, 3}
                             /\ w.rate = 8000)}

\* gains absent, all 1, or a treble gain larger than the others
CallEqs ==
    {None,
     [present |-> TRUE, bass |-> GainDen, mid |-> GainDen, treble |-> GainDen],
     [present |-> TRUE, bass |-> GainDen, mid |-> GainDen,
      treble |-> GainDen + 1]}

CallRatios == {0, 50, 100}

InitCalls ==
    /\ pc = "read"
    /\ filepath \in {"", "in.wav"}
    /\ wav \in CallFiles
    /\ eq_settings \in CallEqs
    /\ compression_ratio \in CallRatios
    /\ sample_rate = 0
    /\ audio_data = <<>>
    /\ fft_data = <<>>
    /\ fft_freqs = <<>>
    /\ processed_audio = <<>>
    /\ max_val = 0
    /\ normalized_audio = <<>>
    /\ norm_den = 1
    /\ result = Pending
    /\ calls = 1
    /\ remembered = NoCall
    /\ AppIdle

ThisCall == [set |-> TRUE, filepath |-> filepath, eq_settings |-> eq_settings,
             compression_ratio |-> compression_ratio, result |-> result,
             between |-> FALSE]

\* line 59: the caller calls process_audio once more, with arguments of its
\* choice, after noting or not what the call before returned (and, once a
\* call is noted, whether a call with other arguments follows it).  The locals of
\* the new call are unbound; the model leaves in them what the call before
\* left, so that a read before the assignment would show.
CallAgain ==
    /\ pc = "done"
    /\ calls < MaxCalls
    /\ calls' = calls + 1
    /\ filepath' \in {"", "in.wav"}
    /\ eq_settings' \in CallEqs
    /\ compression_ratio' \in CallRatios
    /\ \E note \in BOOLEAN :
          LET kept == IF note /\ ~remembered.set THEN ThisCall ELSE remembered
              other == \/ kept.filepath # filepath'
                       \/ kept.eq_settings # eq_settings'
                       \/ kept.compression_ratio # compression_ratio'
          IN  remembered' = [kept EXCEPT !.between = @ \/ (kept.set /\ other)]
    /\ pc' = "read"
    /\ result' = Pending
    /\ UNCHANGED <<wav, sample_rate, audio_data, fft_data, fft_freqs,
                   processed_audio, max_val, normalized_audio, norm_den>>
    /\ UNCHANGED appvars

NextCalls ==
    \/ Next
    \/ CallAgain

SpecCalls == InitCalls /\ [][NextCalls]_vars

----------------------------------------------------------------------------
(* The editor, src/app.py *)

\* process_audio(data, sample_rate, eq_settings, compression_ratio) as the
\* editor calls it: None for a missing or empty buffer, else a buffer
AppProcessAudio(data) == IF data = "audio" THEN "audio" ELSE "None"

\* song_length_ms, line 161
SongLength == IF original_audio_data = "audio" THEN MaxPos ELSE 0

\* the playback fields of the AudioApp object
Self == [is_playing |-> is_playing, is_paused |-> is_paused,
         changed |-> settings_changed_since_play, pos |-> playback_pos_ms,
         offset |-> playback_start_offset_ms, timer |-> playback_timer,
         mixer |-> mixer_music, start |-> "not called"]

SetSelf(st) ==
    /\ is_playing' = st.is_playing
    /\ is_paused' = st.is_paused
    /\ settings_changed_since_play' = st.changed
    /\ playback_pos_ms' = st.pos
    /\ playback_start_offset_ms' = st.offset
    /\ playback_timer' = st.timer
    /\ mixer_music' = st.mixer
    /\ last_start' = st.start

\* pygame.mixer.music.pause() and unpause()
MixerPause(m) == IF m = "playing" THEN "paused" ELSE m

MixerUnpause(m) == IF m = "paused" THEN "playing" ELSE m

\* lines 308-313 and 380-385
Pause(st) == [st EXCEPT !.mixer = MixerPause(@), !.timer = FALSE,
                        !.is_playing = FALSE, !.is_paused = TRUE]

\* start_playback, lines 397-422
StartPlayback(st, start_ms) ==
    LET data_to_process == IF controls_stack = 0 THEN original_audio_data
                           ELSE eq_audio_data
        processed_data == AppProcessAudio(data_to_process)
    IN  IF processed_data # "None"
        THEN [st EXCEPT !.mixer = "playing", !.offset = start_ms,
                        !.timer = TRUE, !.is_playing = TRUE,
                        !.is_paused = FALSE, !.changed = FALSE,
                        !.start = processed_data]
        ELSE [st EXCEPT !.start = "None"]

\* stop_playback, lines 436-444; the update_progress it ends with finds
\* is_playing false
StopPlayback(st, song_finished) ==
    [st EXCEPT !.mixer = "stopped", !.timer = FALSE, !.is_playing = FALSE,
               !.is_paused = FALSE,
               !.pos = IF song_finished THEN 0 ELSE @]

\* the file is loaded and the editor is shown, lines 154-163 and 97-111
InitApp ==
    /\ pc = "read"
    /\ filepath = ""
    /\ wav = Unreadable
    /\ eq_settings = None
    /\ compression_ratio = 0
    /\ sample_rate = 0
    /\ audio_data = <<>>
    /\ fft_data = <<>>
    /\ fft_freqs = <<>>
    /\ processed_audio = <<>>
    /\ max_val = 0
    /\ normalized_audio = <<>>
    /\ norm_den = 1
    /\ result = Pending
    /\ calls = 1
    /\ remembered = NoCall
    /\ original_audio_data \in {"empty", "audio"}
    /\ eq_audio_data = "None"
    /\ controls_stack = 0
    /\ compression_slider = 0
    /\ is_playing = FALSE
    /\ is_paused = FALSE
    /\ settings_changed_since_play = FALSE
    /\ playback_pos_ms = 0
    /\ playback_start_offset_ms = 0
    /\ playback_timer = FALSE
    /\ mixer_music = "stopped"
    /\ last_event = "none"
    /\ last_start = "not called"

\* on_slider_change, lines 303-319: a slider of the page shown has moved
OnSliderChange ==
    /\ last_event' = "on_slider_change"
    /\ IF controls_stack = 1
       THEN compression_slider' \in SliderValues \ {compression_slider}
       ELSE UNCHANGED compression_slider
    /\ SetSelf(IF is_playing THEN [Pause(Self) EXCEPT !.changed = TRUE]
               ELSE [Self EXCEPT !.changed = TRUE])
    /\ UNCHANGED <<original_audio_data, eq_audio_data, controls_stack>>
    /\ UNCHANGED <<procvars, callvars>>

\* toggle_play_pause, lines 379-395
TogglePlayPause ==
    /\ last_event' = "toggle_play_pause"
    /\ SetSelf(IF is_playing THEN Pause(Self)
               ELSE LET st == IF is_paused /\ ~settings_changed_since_play
                              THEN [Self EXCEPT !.mixer = MixerUnpause(@)]
                              ELSE StartPlayback(Self, playback_pos_ms)
                    IN  [st EXCEPT !.is_playing = TRUE, !.is_paused = FALSE,
                                   !.timer = TRUE])
    /\ UNCHANGED <<original_audio_data, eq_audio_data, controls_stack,
                   compression_slider>>
    /\ UNCHANGED <<procvars, callvars>>

\* update_progress, lines 424-434, on a timeout of playback_timer; get_pos()
\* is -1 while nothing has been played
UpdateProgress ==
    /\ playback_timer
    /\ last_event' = "update_progress"
    /\ IF is_playing
       THEN \E elapsed_time \in
                 IF mixer_music = "stopped" THEN {-1} ELSE 0..MaxPos :
               LET pos == playback_start_offset_ms + elapsed_time
               IN  SetSelf(IF pos >= SongLength
                           THEN StopPlayback([Self EXCEPT !.pos = pos], TRUE)
                           ELSE [Self EXCEPT !.pos = pos])
       ELSE SetSelf(Self)
    /\ UNCHANGED <<original_audio_data, eq_audio_data, controls_stack,
                   compression_slider>>
    /\ UNCHANGED <<procvars, callvars>>

\* seek_playback, lines 446-449
SeekPlayback ==
    /\ last_event' = "seek_playback"
    /\ \E seek_ms \in 0..SongLength :
          SetSelf(StartPlayback([Self EXCEPT !.pos = seek_ms], seek_ms))
    /\ UNCHANGED <<original_audio_data, eq_audio_data, controls_stack,
                   compression_slider>>
    /\ UNCHANGED <<procvars, callvars>>

\* go_to_compression, lines 358-363
GoToCompression ==
    /\ controls_stack = 0
    /\ last_event' = "go_to_compression"
    /\ SetSelf(StopPlayback(Self, FALSE))
    /\ eq_audio_data' = AppProcessAudio(original_audio_data)
    /\ controls_stack' = 1
    /\ UNCHANGED <<original_audio_data, compression_slider>>
    /\ UNCHANGED <<procvars, callvars>>

\* go_to_eq, lines 365-368
GoToEq ==
    /\ controls_stack = 1
    /\ last_event' = "go_to_eq"
    /\ SetSelf(StopPlayback(Self, FALSE))
    /\ controls_stack' = 0
    /\ UNCHANGED <<original_audio_data, eq_audio_data, compression_slider>>
    /\ UNCHANGED <<procvars, callvars>>

\* save_final_audio, lines 451-459
SaveFinalAudio ==
    /\ controls_stack = 1
    /\ last_event' = "save_final_audio"
    /\ SetSelf(StopPlayback(Self, FALSE))
    /\ UNCHANGED <<original_audio_data, eq_audio_data, controls_stack,
                   compression_slider>>
    /\ UNCHANGED <<procvars, callvars>>

NextApp ==
    \/ OnSliderChange
    \/ TogglePlayPause
    \/ UpdateProgress
    \/ SeekPlayback
    \/ GoToCompression
    \/ GoToEq
    \/ SaveFinalAudio

SpecApp == InitApp /\ [][NextApp]_vars

----------------------------------------------------------------------------
(* Properties *)

\* the number of frames of the input file
N == Len(wav.frames)

HasFile == filepath # "" /\ wav.readable

\* a buffer of at least one sample, a positive rate, gains present and a
\* compression ratio in [0, 1)
ValidInput ==
    /\ HasFile
    /\ N >= 1
    /\ wav.rate > 0
    /\ eq_settings.present
    /\ compression_ratio >= 0
    /\ compression_ratio < CompDen

Unity == [present |-> TRUE, bass |-> GainDen, mid |-> GainDen,
          treble |-> GainDen]

\* the spectrum as the compression step finds it
Shaped == Equalize(Rfft(audio_data), fft_freqs, Len(audio_data), eq_settings)

Bins(a) == 1..Len(a)

NonZeroBins(a) == Cardinality({k \in Bins(a) : a[k] # ZeroBin})

Below(a, t) == {k \in Bins(a) : Magnitude(a[k]) < t}

AtMost(a, t) == {k \in Bins(a) : Magnitude(a[k]) <= t}

\* t is the i-th smallest magnitude of a, counting from 1
IsNthSmallest(a, t, i) ==
    /\ \E k \in Bins(a) : Magnitude(a[k]) = t
    /\ Cardinality(Below(a, t)) < i
    /\ i <= Cardinality(AtMost(a, t))

\* fft_data is a with exactly the bins below t set to zero
ZeroedBelow(a, t) ==
    /\ Len(fft_data) = Len(a)
    /\ \A k \in Bins(a) :
         fft_data[k] = IF Magnitude(a[k]) < t THEN ZeroBin ELSE a[k]

AllZero(x) == \A j \in 1..Len(x) : x[j] = 0

\* C1: for every valid input, odd and even lengths alike, the call returns a
\* buffer of exactly as many samples as the input has.
C1_LengthPreserved ==
    (pc = "done" /\ ValidInput)
        => (result.kind = "audio" /\ Len(result.final_audio) = N)

\* C2: with the gains absent the call still returns a buffer, the one it
\* returns with all three gains equal to 1 and the same compression (stated
\* for even lengths, where a call with gains present returns a buffer).
C2_AbsentEqIsUnity ==
    (/\ pc = "done"
     /\ HasFile /\ N >= 1 /\ N % 2 = 0 /\ wav.rate > 0
     /\ compression_ratio >= 0 /\ compression_ratio < CompDen
     /\ eq_settings = None)
        => (/\ result.kind = "audio"
            /\ result = ProcessAudio(filepath, wav, Unity, compression_ratio))

C4_FullCompressionSucceeds ==
    (/\ pc = "done"
     /\ HasFile /\ N >= 1 /\ N % 2 = 0 /\ wav.rate > 0
     /\ eq_settings.present
     /\ compression_ratio >= CompDen)
        => (/\ result.kind = "audio"
            /\ \A k \in Bins(Shaped) :
                 fft_data[k] =
                    IF \A i \in Bins(Shaped) :
                          Magnitude(Shaped[i]) <= Magnitude(Shaped[k])
                    THEN Shaped[k] ELSE ZeroBin)

\* C5: on an empty buffer or a sample rate of zero or less the call never
\* returns a buffer and never stops short of returning: it returns None, None.
C5_EmptyOrNoRateFails ==
    (HasFile /\ (N = 0 \/ wav.rate <= 0))
        => (/\ result.kind # "audio"
            /\ pc = "done" => result = NoneResult
            /\ pc # "done" => ENABLED Next)

\* a call on a non-empty buffer with a sample rate of 0 that has returned
C5_Witness ==
    /\ pc = "done"
    /\ HasFile /\ N >= 1 /\ wav.rate = 0
    /\ eq_settings.present /\ compression_ratio = 0
    /\ result = NoneResult

\* C6: every sample of a returned buffer is in [-32768, 32767] and is the
\* scaled value itself, truncated: the conversion to 16 bits wraps nothing.
C6_Int16Range ==
    (pc = "done" /\ result.kind = "audio")
        => \A j \in 1..Len(result.final_audio) :
              /\ result.final_audio[j] >= -32768
              /\ result.final_audio[j] <= Int16Max
              /\ result.final_audio[j] = TruncDiv(normalized_audio[j], norm_den)

\* a returned buffer with a sample at the negative peak and a sample that is
\* neither zero nor a peak
C6_Witness ==
    /\ pc = "done"
    /\ result.kind = "audio"
    /\ \E j \in 1..Len(result.final_audio) : result.final_audio[j] = -Int16Max
    /\ \E j \in 1..Len(result.final_audio) :
          /\ result.final_audio[j] > 0
          /\ result.final_audio[j] < Int16Max

\* C7: for a positive sample rate, every bin is in exactly one of the bands
\* bass, mid and treble, and equalization multiplies it by the gain of that
\* band and by no other.
C7_BandPartition ==
    (pc = "compress")
        => LET spectrum == Rfft(audio_data) IN
           \A k \in Bins(fft_freqs) :
              LET f == fft_freqs[k]
                  n == Len(audio_data)
                  gains == {g \in GainValues :
                               \/ BassMask(f, n) /\ g = eq_settings.bass
                               \/ MidMask(f, n) /\ g = eq_settings.mid
                               \/ TrebleMask(f, n) /\ g = eq_settings.treble}
              IN  /\ Cardinality({b \in {"bass", "mid", "treble"} :
                                    \/ b = "bass" /\ BassMask(f, n)
                                    \/ b = "mid" /\ MidMask(f, n)
                                    \/ b = "treble" /\ TrebleMask(f, n)}) = 1
                  /\ \E g \in gains :
                        fft_data[k] = ScaleBin(spectrum[k],
                                               g * GainDen * GainDen)

\* a spectrum of three non-zero bins, one in each band, one of them at 250 Hz
\* or at 4000 Hz exactly, under three different gains
C7_Witness ==
    /\ pc = "compress"
    /\ Len(fft_freqs) = 3
    /\ BassMask(fft_freqs[1], Len(audio_data))
    /\ MidMask(fft_freqs[2], Len(audio_data))
    /\ TrebleMask(fft_freqs[3], Len(audio_data))
    /\ fft_freqs[3] = TrebleEdge * Len(audio_data)
    /\ Cardinality({eq_settings.bass, eq_settings.mid, eq_settings.treble}) = 3
    /\ \A k \in Bins(fft_data) : Rfft(audio_data)[k] # ZeroBin

\* C8: for the same buffer and gains, a larger compression ratio in [0, 1)
\* leaves no more non-zero bins than a smaller one.
C8_CompressionMonotone ==
    (/\ pc = "inverse"
     /\ compression_ratio >= 0
     /\ compression_ratio < CompDen)
        => LET a == Shaped IN
           \A r1 \in CompValues :
              (r1 >= 0 /\ r1 < compression_ratio)
                 => NonZeroBins(fft_data) <= NonZeroBins(Compress(a, r1))

\* three ratios that leave three different numbers of non-zero bins
C8_Witness ==
    /\ pc = "inverse"
    /\ compression_ratio < CompDen
    /\ \E r1 \in CompValues :
          /\ r1 > 0 /\ r1 < compression_ratio
          /\ NonZeroBins(fft_data) < NonZeroBins(Compress(Shaped, r1))
          /\ NonZeroBins(Compress(Shaped, r1)) < NonZeroBins(Shaped)

\* C9: an all-zero buffer of N >= 1 samples gives, for every gain setting and
\* every compression in [0, 1), a returned buffer of N zeros.
C9_SilenceInSilenceOut ==
    (/\ pc = "done"
     /\ ValidInput
     /\ \A i \in 1..N : AllZero(wav.frames[i]))
        => (/\ result.kind = "audio"
            /\ Len(result.final_audio) = N
            /\ AllZero(result.final_audio))

\* C10 as stated: a negative compression ratio makes the call return None,
\* None.
C10_NegativeRejected ==
    (pc = "done" /\ HasFile /\ compression_ratio < 0) => result = NoneResult

\* C10 amended: a negative compression ratio is not rejected; the compression
\* step leaves the spectrum as it is and the call returns what it returns for
\* a ratio of 0.
C10_NegativeIsNoCompression ==
    /\ (pc = "inverse" /\ compression_ratio < 0) => fft_data = Shaped
    /\ (pc = "done" /\ HasFile /\ compression_ratio < 0)
          => result = ProcessAudio(filepath, wav, eq_settings, 0)

\* a call with a negative ratio that returned a buffer which a ratio of 1/2
\* would have changed
C10_Witness ==
    /\ pc = "done"
    /\ compression_ratio < 0
    /\ result.kind = "audio"
    /\ result # ProcessAudio(filepath, wav, eq_settings, 50)
    /\ ProcessAudio(filepath, wav, eq_settings, 50).kind = "audio"

\* C11: when the reconstructed sequence is not silent, the largest absolute
\* value of the returned buffer is exactly 32767, taken at every sample where
\* the reconstructed sequence has its peak; truncation does not lower it.
C11_PeakIsInt16Max ==
    (pc = "done" /\ result.kind = "audio" /\ max_val > 0)
        => /\ MaxSeq([j \in 1..Len(result.final_audio) |->
                         Abs(result.final_audio[j])]) = Int16Max
           /\ \A j \in 1..Len(processed_audio) :
                 Abs(processed_audio[j]) = max_val
                    => Abs(result.final_audio[j]) = Int16Max

\* a returned buffer with a negative peak and a sample whose scaled value is
\* no integer
C11_Witness ==
    /\ pc = "done"
    /\ result.kind = "audio"
    /\ max_val > 0
    /\ \E j \in 1..Len(processed_audio) : processed_audio[j] = -max_val
    /\ \A j \in 1..Len(processed_audio) : processed_audio[j] # max_val
    /\ \E j \in 1..Len(normalized_audio) :
          normalized_audio[j] % norm_den # 0

SameArguments(c) ==
    /\ c.set
    /\ c.filepath = filepath
    /\ c.eq_settings = eq_settings
    /\ c.compression_ratio = compression_ratio

\* C12: a call returns what an earlier call with the same file, gains and
\* compression returned, whatever calls were made in between, and no step of
\* a call changes the file.
C12_Deterministic ==
    [][/\ wav' = wav
       /\ (pc' = "done" /\ SameArguments(remembered)')
             => result' = remembered'.result]_vars

\* a third call that returned a buffer, with the arguments of a remembered
\* call, after a call with other arguments in between
C12_Witness ==
    /\ pc = "done"
    /\ calls = 3
    /\ SameArguments(remembered)
    /\ remembered.between
    /\ result.kind = "audio"
    /\ \E j \in 1..Len(result.final_audio) :
          Abs(result.final_audio[j]) \notin {0, Int16Max}

\* C13: after any sequence of editor events is_playing is true only if
\* playback was started or resumed: a toggle_play_pause whose start_playback
\* got None from process_audio leaves is_playing false and the playback timer
\* stopped; and is_playing and is_paused are never both true.
C13_PlayingOnlyIfStarted ==
    /\ (last_event = "toggle_play_pause" /\ last_start = "None")
          => (~is_playing /\ ~playback_timer)
    /\ is_playing => mixer_music = "playing"
    /\ ~(is_playing /\ is_paused)

====
